---- MODULE Spec2Model ----
(***************************************************************************)
(* A model of the SELECT chip of the recursion machine                     *)
(* (crates/recursion/core/src/chips/select.rs) and of the program          *)
(* registration path of the prover-network client                          *)
(* (crates/sdk/src/network/client.rs).                                     *)
(*                                                                         *)
(* The chip part models the two trace generators (a zeroed buffer, a       *)
(* parallel loop over row-sized chunks, the conversion to a row-major      *)
(* matrix) and the evaluator (five bus messages and two asserted           *)
(* identities per row).  The prime field is scaled down to the integers    *)
(* modulo FieldOrder.                                                      *)
(***************************************************************************)
EXTENDS Integers, Sequences, FiniteSets, TLC

VARIABLES
    program,      \* the RecursionProgram handed to generate_preprocessed_trace
    record,       \* the ExecutionRecord handed to generate_trace
    pc,           \* position of the proving pipeline
    values,       \* the flat buffer `values` of the generator that is running
    pending,      \* the (chunk, input) pairs of the parallel loop not yet run
    writes,       \* log of the loop: which worker wrote which chunk from which input
    prep_trace,   \* result of generate_preprocessed_trace (None until returned)
    main_trace,   \* result of generate_trace (None until returned)
    eval_row,     \* next row index the backend evaluates
    evald,        \* evald[i+1]: what eval put into the builder on row i
    net_registered,   \* the network holds a program for the verifying key
    create_requests,  \* the CreateProgram requests the network has received
    call_pc,          \* position of each register_program call
    call_tries,       \* failed attempts of the retried operation a call is in
    call_result,      \* what each call returned
    op,               \* the client operation a single caller runs
    op_pc,            \* its position
    op_tries,         \* failed attempts of the retried operation it is in
    op_res,           \* the response or the locals it holds across awaits
    op_result,        \* what it returned
    op_log            \* the RPCs and HTTP transfers it has made, in order

chipVars == <<program, record, pc, values, pending, writes, prep_trace, main_trace,
              eval_row, evald>>

netVars == <<net_registered, create_requests, call_pc, call_tries, call_result>>

opVars == <<op, op_pc, op_tries, op_res, op_result, op_log>>

vars == <<chipVars, netVars, opVars>>

-----------------------------------------------------------------------------
(* Bounds of the model *)

\* order of the scaled-down field
FieldOrder == 5
\* longest program
MaxInstrs == 3

\* attempts the retry wrapper makes before it gives up
MaxAttempts == 2

\* the worker threads of the pool
Workers == {"w1", "w2"}

-----------------------------------------------------------------------------
(* Option, field, columns *)

None == <<>>
Some(x) == <<x>>
unwrap(o) == o[1]

F == 0 .. (FieldOrder - 1)
zero == 0
one == 1 % FieldOrder
add(a, b) == (a + b) % FieldOrder
sub(a, b) == (a + FieldOrder - b) % FieldOrder
mul(a, b) == (a * b) % FieldOrder

SELECT_COLS == 5
SELECT_PREPROCESSED_COLS == 8

\* SelectIo<T>: the five operands of one SELECT
SelectIo(bit, out1, out2, in1, in2) ==
    [bit |-> bit, out1 |-> out1, out2 |-> out2, in1 |-> in1, in2 |-> in2]

\* a row slice borrowed as SelectCols / SelectCols written into a row slice
SelectColsToRow(cols) ==
    <<cols.vals.bit, cols.vals.out1, cols.vals.out2, cols.vals.in1, cols.vals.in2>>
RowToSelectCols(row) ==
    [vals |-> SelectIo(row[1], row[2], row[3], row[4], row[5])]

\* a row slice borrowed as SelectPreprocessedCols, and the reverse
SelectPreprocessedColsToRow(c) ==
    <<c.is_real, c.addrs.bit, c.addrs.out1, c.addrs.out2, c.addrs.in1, c.addrs.in2,
      c.mult1, c.mult2>>
RowToSelectPreprocessedCols(row) ==
    [is_real |-> row[1],
     addrs |-> SelectIo(row[2], row[3], row[4], row[5], row[6]),
     mult1 |-> row[7], mult2 |-> row[8]]

\* a buffer that is not cleared on allocation
ZeroVecDirty(n) == [k \in 1 .. n |-> 1 % FieldOrder]

\* vec![F::zero(); n]
ZeroVec(n) == [k \in 1 .. n |-> zero]

\* RowMajorMatrix::new, height and row_slice
RowMajorMatrix(vals, width) == [values |-> vals, width |-> width]
height(m) == Len(m.values) \div m.width
row_slice(m, i) == SubSeq(m.values, i * m.width + 1, (i + 1) * m.width)

-----------------------------------------------------------------------------
(* Inputs *)

\* the SELECT instructions of the programs explored: A supplies both outputs
\* once, B leaves out1 dangling (mult1 = 0) and supplies out2 twice
InstrA == [kind |-> "Select", addrs |-> SelectIo(0, 1, 2, 3, 4), mult1 |-> 1, mult2 |-> 1]
InstrB == [kind |-> "Select", addrs |-> SelectIo(2, 3, 4, 0, 1), mult1 |-> 0, mult2 |-> 2]
\* an instruction of another kind
InstrMem == [kind |-> "Mem", addrs |-> SelectIo(0, 0, 0, 0, 0), mult1 |-> 1, mult2 |-> 0]
InstrSet == {InstrA, InstrB, InstrMem}

\* events: a swap, an identity, and one no VM would produce (bit = 2, outputs
\* that are no selection of the inputs)
EvSwap == SelectIo(1, 4, 3, 3, 4)
EvKeep == SelectIo(0, 4, 3, 4, 3)
EvBad == SelectIo(2, 0, 0, 1, 2)
EventSet == {EvSwap, EvKeep, EvBad}

\* the fixed log2 row counts a shape may pin
FixedLog2Choices == {None, Some(0), Some(1), Some(2)}

SeqsUpTo(S, n) == UNION {[1 .. k -> S] : k \in 0 .. n}

Programs ==
    {[instructions |-> is, fixed_log2_rows |-> fx] :
        is \in SeqsUpTo(InstrSet, MaxInstrs), fx \in FixedLog2Choices}

-----------------------------------------------------------------------------
(* Row-count policy *)

RECURSIVE PowerOfTwoFrom(_, _)
PowerOfTwoFrom(p, n) == IF p >= n THEN p ELSE PowerOfTwoFrom(2 * p, n)

next_power_of_two(n, fixed_power) ==
    IF fixed_power # None THEN 2 ^ unwrap(fixed_power) ELSE PowerOfTwoFrom(1, n)

RECURSIVE SelectSeq2(_, _)
SelectSeq2(s, acc) ==
    IF s = <<>> THEN acc
    ELSE SelectSeq2(Tail(s), IF Head(s).kind = "Select" THEN Append(acc, Head(s)) ELSE acc)

extract_select_instrs(prog) == SelectSeq2(prog.instructions, <<>>)

\* the override taken as a row count instead of a log2 of one
preprocessed_num_rows_linear(prog, instrs_len) ==
    IF prog.fixed_log2_rows # None
    THEN 2 * unwrap(prog.fixed_log2_rows)
    ELSE next_power_of_two(instrs_len, None)

preprocessed_num_rows(prog, instrs_len) ==
    IF prog.fixed_log2_rows # None
    THEN 2 ^ unwrap(prog.fixed_log2_rows)
    ELSE next_power_of_two(instrs_len, None)

num_rows(input) == next_power_of_two(Len(input.select_events), input.fixed_log2_rows)

-----------------------------------------------------------------------------
(* The parallel loop  values[..populate_len].par_chunks_mut(w).zip_eq(xs).for_each(f) *)

\* number of chunks par_chunks_mut cuts a slice of `len` elements into
par_chunks_mut(len, width) == (len + width - 1) \div width

\* the inputs zipped in reverse order
zip_eq_rev(nchunks, ninputs) == {<<j, nchunks - 1 - j>> : j \in 0 .. (nchunks - 1)}

\* zip_eq pairs chunk j with input j (both 0-based); it panics on unequal lengths
zip_eq(nchunks, ninputs) == {<<j, j>> : j \in 0 .. (nchunks - 1)}

\* chunks one element too short, so that neighbouring chunks overlap
WriteChunkOverlap(vals, j, width, row) ==
    [k \in 1 .. Len(vals) |->
        IF j * (width - 1) < k /\ k <= j * (width - 1) + width
        THEN row[k - j * (width - 1)] ELSE vals[k]]

\* the write `*access = row` of the closure into chunk j of the buffer
WriteChunk(vals, j, width, row) ==
    [k \in 1 .. Len(vals) |->
        IF j * width < k /\ k <= (j + 1) * width THEN row[k - j * width] ELSE vals[k]]

\* the two multiplicities written into each other's column
PrepClosureSwapMult(instr) ==
    SelectPreprocessedColsToRow(
        [is_real |-> one, addrs |-> instr.addrs, mult1 |-> instr.mult2, mult2 |-> instr.mult1])

\* the closure of generate_preprocessed_trace
PrepClosure(instr) ==
    SelectPreprocessedColsToRow(
        [is_real |-> one, addrs |-> instr.addrs, mult1 |-> instr.mult1, mult2 |-> instr.mult2])

\* a generator that normalises the bit to a boolean
MainClosureBoolBit(event) ==
    SelectColsToRow([vals |-> [event EXCEPT !.bit = IF @ = zero THEN zero ELSE one]])

\* the closure of generate_trace
MainClosure(event) == SelectColsToRow([vals |-> event])

\* the loop run by one worker that takes the pairs in order, from pair j on
RECURSIVE for_each_in_order(_, _, _, _)
for_each_in_order(vals, rows, j, width) ==
    IF j >= Len(rows) THEN vals
    ELSE for_each_in_order(WriteChunk(vals, j, width, rows[j + 1]), rows, j + 1, width)

\* generate_preprocessed_trace on a single-threaded pool (no panic case)
single_worker_preprocessed_trace(prog) ==
    LET instrs == extract_select_instrs(prog)
        padded_nb_rows == preprocessed_num_rows(prog, Len(instrs))
        rows == [i \in 1 .. Len(instrs) |-> PrepClosure(instrs[i])]
    IN  RowMajorMatrix(
            for_each_in_order(ZeroVec(padded_nb_rows * SELECT_PREPROCESSED_COLS), rows, 0,
                              SELECT_PREPROCESSED_COLS),
            SELECT_PREPROCESSED_COLS)

\* generate_trace on a single-threaded pool (no panic case)
single_worker_trace(input) ==
    LET events == input.select_events
        rows == [i \in 1 .. Len(events) |-> MainClosure(events[i])]
    IN  RowMajorMatrix(
            for_each_in_order(ZeroVec(num_rows(input) * SELECT_COLS), rows, 0, SELECT_COLS),
            SELECT_COLS)

\* the reference generator of the tests: every cell computed from its own event
generate_trace_ffi(input) ==
    LET events == input.select_events
        cell(k) ==
            LET r == (k - 1) \div SELECT_COLS
                c == (k - 1) % SELECT_COLS
                e == events[r + 1]
            IN  IF r >= Len(events) THEN zero
                ELSE IF c = 0 THEN e.bit
                ELSE IF c = 1 THEN e.out1
                ELSE IF c = 2 THEN e.out2
                ELSE IF c = 3 THEN e.in1
                ELSE e.in2
    IN  RowMajorMatrix([k \in 1 .. num_rows(input) * SELECT_COLS |-> cell(k)], SELECT_COLS)

-----------------------------------------------------------------------------
(* generate_preprocessed_trace *)

\* lines 63-68: extract, size, allocate; slicing values[..populate_len] panics
\* when populate_len exceeds the buffer, zip_eq when the lengths differ
generate_preprocessed_trace_begin ==
    /\ pc = "prep_start"
    /\ LET instrs == extract_select_instrs(program)
           padded_nb_rows == preprocessed_num_rows(program, Len(instrs))
           vals == ZeroVec(padded_nb_rows * SELECT_PREPROCESSED_COLS)
           populate_len == Len(instrs) * SELECT_PREPROCESSED_COLS
           nchunks == par_chunks_mut(populate_len, SELECT_PREPROCESSED_COLS)
       IN  IF populate_len > Len(vals) \/ nchunks # Len(instrs)
           THEN /\ pc' = "prep_panic"
                /\ UNCHANGED <<netVars, opVars, values, pending>>
           ELSE /\ pc' = "prep_fill"
                /\ values' = vals
                /\ pending' = zip_eq(nchunks, Len(instrs))
    /\ writes' = {}
    /\ UNCHANGED <<netVars, opVars, program, record, prep_trace, main_trace, eval_row, evald>>

\* lines 69-80: some worker runs the closure on one (row, instr) pair
generate_preprocessed_trace_for_each ==
    /\ pc = "prep_fill"
    /\ \E w \in Workers, p \in pending :
        LET instrs == extract_select_instrs(program)
        IN  /\ values' = WriteChunk(values, p[1], SELECT_PREPROCESSED_COLS,
                                    PrepClosure(instrs[p[2] + 1]))
            /\ pending' = pending \ {p}
            /\ writes' = writes \cup {[worker |-> w, chunk |-> p[1], input |-> p[2]]}
    /\ UNCHANGED <<netVars, opVars, program, record, pc, prep_trace, main_trace, eval_row, evald>>

\* line 83: the loop has joined; the buffer becomes the matrix
generate_preprocessed_trace_return ==
    /\ pc = "prep_fill"
    /\ pending = {}
    /\ prep_trace' = Some(RowMajorMatrix(values, SELECT_PREPROCESSED_COLS))
    /\ values' = <<>>
    /\ writes' = {}
    /\ pc' = "main_start"
    /\ UNCHANGED <<netVars, opVars, program, record, pending, main_trace, eval_row, evald>>

-----------------------------------------------------------------------------
(* generate_trace *)

\* the records an execution of `prog` can hand to the chip: one event per SELECT
\* instruction (any values: the generator validates nothing), any override
Records(prog) ==
    {[select_events |-> es, fixed_log2_rows |-> fx] :
        es \in [1 .. Len(extract_select_instrs(prog)) -> EventSet],
        fx \in FixedLog2Choices}

\* ExecutionRecord::default()
DefaultRecord == [select_events |-> <<>>, fixed_log2_rows |-> None]

\* a generator that clamps the populated prefix to the buffer instead of
\* slicing past its end
generate_trace_begin_clamped ==
    /\ pc = "main_start"
    /\ \E input \in Records(program) :
        LET events == input.select_events
            padded_nb_rows == num_rows(input)
            vals == ZeroVec(padded_nb_rows * SELECT_COLS)
            populate_len == IF Len(events) < padded_nb_rows
                            THEN Len(events) * SELECT_COLS ELSE Len(vals)
            nchunks == par_chunks_mut(populate_len, SELECT_COLS)
        IN  /\ record' = input
            /\ pc' = "main_fill"
            /\ values' = vals
            /\ pending' = zip_eq(nchunks, nchunks)
    /\ writes' = {}
    /\ UNCHANGED <<netVars, opVars, program, prep_trace, main_trace, eval_row, evald>>

\* lines 96-101
generate_trace_begin ==
    /\ pc = "main_start"
    /\ \E input \in Records(program) :
        LET events == input.select_events
            padded_nb_rows == num_rows(input)
            vals == ZeroVec(padded_nb_rows * SELECT_COLS)
            populate_len == Len(events) * SELECT_COLS
            nchunks == par_chunks_mut(populate_len, SELECT_COLS)
        IN  /\ record' = input
            /\ IF populate_len > Len(vals) \/ nchunks # Len(events)
               THEN /\ pc' = "main_panic"
                    /\ UNCHANGED <<netVars, opVars, values, pending>>
               ELSE /\ pc' = "main_fill"
                    /\ values' = vals
                    /\ pending' = zip_eq(nchunks, Len(events))
    /\ writes' = {}
    /\ UNCHANGED <<netVars, opVars, program, prep_trace, main_trace, eval_row, evald>>

\* lines 102-107
generate_trace_for_each ==
    /\ pc = "main_fill"
    /\ \E w \in Workers, p \in pending :
        /\ values' = WriteChunk(values, p[1], SELECT_COLS,
                                MainClosure(record.select_events[p[2] + 1]))
        /\ pending' = pending \ {p}
        /\ writes' = writes \cup {[worker |-> w, chunk |-> p[1], input |-> p[2]]}
    /\ UNCHANGED <<netVars, opVars, program, record, pc, prep_trace, main_trace, eval_row, evald>>

\* line 110
generate_trace_return ==
    /\ pc = "main_fill"
    /\ pending = {}
    /\ main_trace' = Some(RowMajorMatrix(values, SELECT_COLS))
    /\ values' = <<>>
    /\ writes' = {}
    /\ pc' = "eval"
    /\ UNCHANGED <<netVars, opVars, program, record, pending, prep_trace, eval_row, evald>>

-----------------------------------------------------------------------------
(* eval *)

\* the builder: the bus messages and the assertions it has been handed
EmptyBuilder == [msgs |-> <<>>, asserts |-> <<>>]
receive_single(builder, addr, val, mult) ==
    [builder EXCEPT !.msgs =
        Append(@, [kind |-> "receive", addr |-> addr, val |-> val, mult |-> mult])]
send_single(builder, addr, val, mult) ==
    [builder EXCEPT !.msgs =
        Append(@, [kind |-> "send", addr |-> addr, val |-> val, mult |-> mult])]
assert_eq(builder, x, y) ==
    [builder EXCEPT !.asserts = Append(@, [lhs |-> x, rhs |-> y])]

\* the first identity with its operands exchanged
Select1Exchanged(v) == add(mul(v.bit, v.in1), mul(sub(one, v.bit), v.in2))

\* the right-hand sides of the two identities (lines 141 and 145)
Select1(v) == add(mul(v.bit, v.in2), mul(sub(one, v.bit), v.in1))
Select2(v) == add(mul(v.bit, v.in1), mul(sub(one, v.bit), v.in2))

\* an evaluator that weights the send of out1 by is_real instead of mult1
eval_out1_by_is_real(main_row, prep_row) ==
    LET local == RowToSelectCols(main_row)
        prep_local == RowToSelectPreprocessedCols(prep_row)
        b1 == receive_single(EmptyBuilder, prep_local.addrs.bit, local.vals.bit,
                             prep_local.is_real)
        b2 == receive_single(b1, prep_local.addrs.in1, local.vals.in1, prep_local.is_real)
        b3 == receive_single(b2, prep_local.addrs.in2, local.vals.in2, prep_local.is_real)
        b4 == send_single(b3, prep_local.addrs.out1, local.vals.out1, prep_local.is_real)
        b5 == send_single(b4, prep_local.addrs.out2, local.vals.out2, prep_local.mult2)
        b6 == assert_eq(b5, local.vals.out1, Select1(local.vals))
        b7 == assert_eq(b6, local.vals.out2, Select2(local.vals))
    IN  b7

\* an evaluator that also asserts bit * (bit - 1) = 0
eval_boolean_bit(main_row, prep_row) ==
    LET local == RowToSelectCols(main_row)
        prep_local == RowToSelectPreprocessedCols(prep_row)
        b1 == receive_single(EmptyBuilder, prep_local.addrs.bit, local.vals.bit,
                             prep_local.is_real)
        b2 == receive_single(b1, prep_local.addrs.in1, local.vals.in1, prep_local.is_real)
        b3 == receive_single(b2, prep_local.addrs.in2, local.vals.in2, prep_local.is_real)
        b4 == send_single(b3, prep_local.addrs.out1, local.vals.out1, prep_local.mult1)
        b5 == send_single(b4, prep_local.addrs.out2, local.vals.out2, prep_local.mult2)
        b6 == assert_eq(b5, local.vals.out1, Select1(local.vals))
        b7 == assert_eq(b6, local.vals.out2, Select2(local.vals))
        b8 == assert_eq(b7, mul(local.vals.bit, sub(local.vals.bit, one)), zero)
    IN  b8

\* SelectChip::eval on one row of the main and of the preprocessed trace
eval(main_row, prep_row) ==
    LET local == RowToSelectCols(main_row)
        prep_local == RowToSelectPreprocessedCols(prep_row)
        b1 == receive_single(EmptyBuilder, prep_local.addrs.bit, local.vals.bit,
                             prep_local.is_real)
        b2 == receive_single(b1, prep_local.addrs.in1, local.vals.in1, prep_local.is_real)
        b3 == receive_single(b2, prep_local.addrs.in2, local.vals.in2, prep_local.is_real)
        b4 == send_single(b3, prep_local.addrs.out1, local.vals.out1, prep_local.mult1)
        b5 == send_single(b4, prep_local.addrs.out2, local.vals.out2, prep_local.mult2)
        b6 == assert_eq(b5, local.vals.out1, Select1(local.vals))
        b7 == assert_eq(b6, local.vals.out2, Select2(local.vals))
    IN  b7

Min(a, b) == IF a <= b THEN a ELSE b

\* the rows the backend reads from both traces in lock-step
EvalRows == Min(height(unwrap(main_trace)), height(unwrap(prep_trace)))

\* the backend evaluates the chip on the next row
EvalStep ==
    /\ pc = "eval"
    /\ eval_row < EvalRows
    /\ evald' = Append(evald, eval(row_slice(unwrap(main_trace), eval_row),
                                   row_slice(unwrap(prep_trace), eval_row)))
    /\ eval_row' = eval_row + 1
    /\ UNCHANGED <<netVars, opVars, program, record, pc, values, pending, writes, prep_trace, main_trace>>

-----------------------------------------------------------------------------
(* One caller of the other NetworkClient operations *)

\* a Result: Ok(val) or Err(val)
Ok(val) == [kind |-> "ok", val |-> val]
Err(msg) == [kind |-> "err", val |-> msg]

\* an RPC or HTTP transfer as the other side sees it
Transfer(what, arg) == [what |-> what, arg |-> arg]

\* no operation has been called
OpIdle ==
    /\ op = "none"
    /\ op_pc = "idle"
    /\ op_tries = 0
    /\ op_res = None
    /\ op_result = None
    /\ op_log = <<>>

\* the operation returns `result`
OpReturn(result) ==
    /\ op_pc' = "done"
    /\ op_tries' = 0
    /\ op_result' = Some(result)

\* the operation moves on to its next await point
OpGoto(label) ==
    /\ op_pc' = label
    /\ op_tries' = 0
    /\ UNCHANGED op_result

\* with_retry after a failed attempt: the closure is run again while attempts
\* are left, or the wrapper gives up (a permanent error, the timeout) and the
\* error is returned through the `?` or the tail expression after it
op_with_retry_failed(error) ==
    \/ /\ op_tries + 1 < MaxAttempts
       /\ op_tries' = op_tries + 1
       /\ UNCHANGED <<op_pc, op_result>>
    \/ OpReturn(Err(error))

-----------------------------------------------------------------------------
(* NetworkClient::get_proof_request_status *)

\* the fulfillment statuses the enum knows, and a code it does not know
ValidStatuses == {"Requested", "Assigned", "Fulfilled", "Unfulfillable"}
StatusCodes == ValidStatuses \cup {"UnknownCode"}

\* the responses the network may give
StatusResponses ==
    {[fulfillment_status |-> st, proof_uri |-> uri] :
        st \in StatusCodes, uri \in {None, Some("s3://proof")}}

\* what a download may deliver
ArtifactBytes == {"proof_bytes", "garbage"}

\* bincode::deserialize(..).context("Failed to deserialize proof")
deserialize_proof(bytes) ==
    IF bytes = "proof_bytes" THEN Ok("proof") ELSE Err("Failed to deserialize proof")

\* a client that takes a missing proof URI for "no proof yet"
after_status_lenient(res) ==
    IF res.fulfillment_status \notin ValidStatuses
    THEN [pc |-> "done", result |-> Some(Err("invalid fulfillment status"))]
    ELSE IF res.fulfillment_status = "Fulfilled" /\ res.proof_uri # None
    THEN [pc |-> "download", result |-> None]
    ELSE [pc |-> "done", result |-> Some(Ok(<<res, None>>))]

\* lines 257-268 up to the download: where the call goes with the response
after_status(res) ==
    IF res.fulfillment_status \notin ValidStatuses
    THEN [pc |-> "done", result |-> Some(Err("invalid fulfillment status"))]
    ELSE IF res.fulfillment_status = "Fulfilled"
    THEN IF res.proof_uri = None
         THEN [pc |-> "done", result |-> Some(Err("No proof URI provided"))]
         ELSE [pc |-> "download", result |-> None]
    ELSE [pc |-> "done", result |-> Some(Ok(<<res, None>>))]

\* line 235: the call
get_proof_request_status ==
    /\ op_pc = "idle"
    /\ op' = "get_proof_request_status"
    /\ OpGoto("status_rpc")
    /\ UNCHANGED <<chipVars, netVars, op_res, op_log>>

\* lines 241-257: the status RPC answers
get_proof_request_status_rpc_ok ==
    /\ op_pc = "status_rpc"
    /\ \E res \in StatusResponses :
        /\ op_res' = Some(res)
        /\ op_log' = Append(op_log, Transfer("get_proof_request_status", "ok"))
        /\ op_pc' = after_status(res).pc
        /\ op_result' = after_status(res).result
        /\ op_tries' = 0
    /\ UNCHANGED <<chipVars, netVars, op>>

\* lines 241-255: the connection or the status RPC fails
get_proof_request_status_rpc_failed ==
    /\ op_pc = "status_rpc"
    /\ op_log' = Append(op_log, Transfer("get_proof_request_status", "failed"))
    /\ op_with_retry_failed("getting proof request status")
    /\ UNCHANGED <<chipVars, netVars, op, op_res>>

\* lines 264-265 and 382-399: the artifact at proof_uri arrives and is deserialized
download_artifact_ok ==
    /\ op_pc = "download"
    /\ \E bytes \in ArtifactBytes :
        /\ op_log' = Append(op_log, Transfer("download:" \o bytes, unwrap(unwrap(op_res).proof_uri)))
        /\ OpReturn(IF deserialize_proof(bytes).kind = "ok"
                    THEN Ok(<<unwrap(op_res), Some(deserialize_proof(bytes).val)>>)
                    ELSE deserialize_proof(bytes))
    /\ UNCHANGED <<chipVars, netVars, op, op_res>>

\* lines 382-399: the GET fails or answers with an error status
download_artifact_failed ==
    /\ op_pc = "download"
    /\ op_log' = Append(op_log, Transfer("download:failed", unwrap(unwrap(op_res).proof_uri)))
    /\ op_with_retry_failed("downloading artifact")
    /\ UNCHANGED <<chipVars, netVars, op, op_res>>

-----------------------------------------------------------------------------
(* NetworkClient::get_program, called on its own *)

\* what one run of the closure meets: no connection, a response, the status
\* NotFound, or another error status
GetProgramReplies == {"connect_failed", "ok", "NotFound", "Unavailable"}

\* a closure that hands NotFound to the retry wrapper like any other error
get_program_closure_strict(reply) ==
    IF reply = "ok" THEN Ok(Some("program")) ELSE Err(reply)

\* lines 127-134: the retried closure
get_program_closure(reply) ==
    IF reply = "connect_failed" THEN Err(reply)
    ELSE IF reply = "ok" THEN Ok(Some("program"))
    ELSE IF reply = "NotFound" THEN Ok(None)
    ELSE Err(reply)

\* what the closure sent: nothing without a connection
GetProgramTransfer(reply) ==
    IF reply = "connect_failed" THEN Transfer("connect", reply)
    ELSE Transfer("get_program", reply)

\* line 125: the call
get_program ==
    /\ op_pc = "idle"
    /\ op' = "get_program"
    /\ OpGoto("get_program_rpc")
    /\ UNCHANGED <<chipVars, netVars, op_res, op_log>>

\* lines 126-137: the closure returns Ok and with_retry returns it
get_program_closure_ok ==
    /\ op_pc = "get_program_rpc"
    /\ \E reply \in GetProgramReplies :
        /\ get_program_closure(reply).kind = "ok"
        /\ op_log' = Append(op_log, GetProgramTransfer(reply))
        /\ OpReturn(get_program_closure(reply))
    /\ UNCHANGED <<chipVars, netVars, op, op_res>>

\* lines 126-137: the closure returns Err and with_retry retries or gives up
get_program_closure_failed ==
    /\ op_pc = "get_program_rpc"
    /\ \E reply \in GetProgramReplies :
        /\ get_program_closure(reply).kind = "err"
        /\ op_log' = Append(op_log, GetProgramTransfer(reply))
        /\ op_with_retry_failed(get_program_closure(reply).val)
    /\ UNCHANGED <<chipVars, netVars, op, op_res>>

-----------------------------------------------------------------------------
(* NetworkClient::request_proof *)

\* the URIs the artifact store hands out and the nonces the network reports
StdinUris == {"s3://stdin_a", "s3://stdin_b"}
Nonces == {7, 8}

\* lines 307-316: the body of the request, from the locals held
RequestProofRequestBody == [nonce |-> unwrap(op_res).nonce, stdin_uri |-> unwrap(op_res).stdin_uri]

\* line 293: the call
request_proof ==
    /\ op_pc = "idle"
    /\ op' = "request_proof"
    /\ OpGoto("artifact_store_client")
    /\ UNCHANGED <<chipVars, netVars, op_res, op_log>>

\* line 300: the connection to the artifact store
request_proof_artifact_store_client ==
    /\ op_pc = "artifact_store_client"
    /\ \/ /\ OpGoto("create_artifact")
          /\ UNCHANGED op_log
       \/ /\ op_log' = Append(op_log, Transfer("connect", "failed"))
          /\ OpReturn(Err("artifact_store_client"))
    /\ UNCHANGED <<chipVars, netVars, op, op_res>>

\* lines 345-355: the stdin artifact is created
request_proof_create_artifact ==
    /\ op_pc = "create_artifact"
    /\ \/ \E uri \in StdinUris :
            /\ op_log' = Append(op_log, Transfer("create_artifact", "ok"))
            /\ op_res' = Some([stdin_uri |-> uri, nonce |-> None])
            /\ OpGoto("upload")
       \/ /\ op_log' = Append(op_log, Transfer("create_artifact", "failed"))
          /\ OpReturn(Err("create_artifact"))
          /\ UNCHANGED op_res
    /\ UNCHANGED <<chipVars, netVars, op>>

\* lines 358-379: the content is uploaded; line 305 follows without an await
\* in between that could fail first
request_proof_upload_ok ==
    /\ op_pc = "upload"
    /\ op_log' = Append(op_log, Transfer("upload", "ok"))
    /\ OpGoto("prover_network_client")
    /\ UNCHANGED <<chipVars, netVars, op, op_res>>

\* lines 358-377: the PUT fails or answers with an error status
request_proof_upload_failed ==
    /\ op_pc = "upload"
    /\ op_log' = Append(op_log, Transfer("upload", "failed"))
    /\ op_with_retry_failed("uploading artifact content")
    /\ UNCHANGED <<chipVars, netVars, op, op_res>>

\* line 305: the connection to the prover network
request_proof_prover_network_client ==
    /\ op_pc = "prover_network_client"
    /\ \/ /\ OpGoto("get_nonce")
          /\ UNCHANGED op_log
       \/ /\ op_log' = Append(op_log, Transfer("connect", "failed"))
          /\ OpReturn(Err("prover_network_client"))
    /\ UNCHANGED <<chipVars, netVars, op, op_res>>

\* lines 306 and 82-94: the nonce is fetched
request_proof_get_nonce_ok ==
    /\ op_pc = "get_nonce"
    /\ \E nonce \in Nonces :
        op_res' = Some([unwrap(op_res) EXCEPT !.nonce = Some(nonce)])
    /\ op_log' = Append(op_log, Transfer("get_nonce", "ok"))
    /\ OpGoto("request_proof_rpc")
    /\ UNCHANGED <<chipVars, netVars, op>>

\* lines 306 and 82-94: fetching the nonce fails
request_proof_get_nonce_failed ==
    /\ op_pc = "get_nonce"
    /\ op_log' = Append(op_log, Transfer("get_nonce", "failed"))
    /\ op_with_retry_failed("getting nonce")
    /\ UNCHANGED <<chipVars, netVars, op, op_res>>

\* the RequestProof RPC wrapped in with_retry like the other RPCs
request_proof_rpc_retried ==
    /\ op_pc = "request_proof_rpc"
    /\ op_log' = Append(op_log, Transfer("request_proof", RequestProofRequestBody))
    /\ \/ OpReturn(Ok("request_response"))
       \/ op_with_retry_failed("request_proof")
    /\ UNCHANGED <<chipVars, netVars, op, op_res>>

\* lines 307-326: the signed RequestProof RPC, sent once
request_proof_rpc ==
    /\ op_pc = "request_proof_rpc"
    /\ op_log' = Append(op_log, Transfer("request_proof", RequestProofRequestBody))
    /\ \/ OpReturn(Ok("request_response"))
       \/ OpReturn(Err("request_proof"))
    /\ UNCHANGED <<chipVars, netVars, op, op_res>>

-----------------------------------------------------------------------------
(* NetworkClient::register_program *)

\* the concurrent register_program calls, all for the same verifying key
Calls == {"c1", "c2"}

\* no call is running
NetIdle ==
    /\ net_registered = FALSE
    /\ create_requests = {}
    /\ call_pc = [c \in Calls |-> "idle"]
    /\ call_tries = [c \in Calls |-> 0]
    /\ call_result = [c \in Calls |-> "none"]

\* the call returns
Return(c, result) ==
    /\ call_pc' = [call_pc EXCEPT ![c] = "done"]
    /\ call_result' = [call_result EXCEPT ![c] = result]
    /\ call_tries' = [call_tries EXCEPT ![c] = 0]

\* the call moves on to its next await point
Goto(c, label) ==
    /\ call_pc' = [call_pc EXCEPT ![c] = label]
    /\ call_tries' = [call_tries EXCEPT ![c] = 0]
    /\ UNCHANGED call_result

\* with_retry after a failed attempt: the operation is run again from `again`
\* while attempts are left, or the wrapper gives up (a permanent error, the
\* timeout) and the `?` after it returns the error
with_retry_failed(c, again) ==
    \/ /\ call_tries[c] + 1 < MaxAttempts
       /\ call_pc' = [call_pc EXCEPT ![c] = again]
       /\ call_tries' = [call_tries EXCEPT ![c] = @ + 1]
       /\ UNCHANGED call_result
    \/ Return(c, "err")

\* line 107-110: the call starts and asks for the program
register_program(c) ==
    /\ call_pc[c] = "idle"
    /\ Goto(c, "get_program")
    /\ UNCHANGED <<chipVars, opVars, net_registered, create_requests>>

\* lines 129-130 and 110-112: the network has the program; Ok(vk_hash)
get_program_some(c) ==
    /\ call_pc[c] = "get_program"
    /\ net_registered
    /\ Return(c, "ok")
    /\ UNCHANGED <<chipVars, opVars, net_registered, create_requests>>

\* lines 131 and 113-115: NotFound is Ok(None); the call goes on to create_program
get_program_none(c) ==
    /\ call_pc[c] = "get_program"
    /\ ~net_registered
    /\ Goto(c, "artifact_store_client")
    /\ UNCHANGED <<chipVars, opVars, net_registered, create_requests>>

\* lines 128 and 132: the connection or the RPC failed otherwise
get_program_failed(c) ==
    /\ call_pc[c] = "get_program"
    /\ with_retry_failed(c, "get_program")
    /\ UNCHANGED <<chipVars, opVars, net_registered, create_requests>>

\* line 148
artifact_store_client(c) ==
    /\ call_pc[c] = "artifact_store_client"
    /\ \/ Goto(c, "create_artifact")
       \/ Return(c, "err")
    /\ UNCHANGED <<chipVars, opVars, net_registered, create_requests>>

\* line 352: the artifact is created in the store
create_artifact(c) ==
    /\ call_pc[c] = "create_artifact"
    /\ \/ Goto(c, "upload")
       \/ Return(c, "err")
    /\ UNCHANGED <<chipVars, opVars, net_registered, create_requests>>

\* lines 358-377: the upload, retried
upload_ok(c) ==
    /\ call_pc[c] = "upload"
    /\ Goto(c, "get_nonce")
    /\ UNCHANGED <<chipVars, opVars, net_registered, create_requests>>

upload_failed(c) ==
    /\ call_pc[c] = "upload"
    /\ with_retry_failed(c, "upload")
    /\ UNCHANGED <<chipVars, opVars, net_registered, create_requests>>

\* lines 158-159: inside the retried closure, the connection and the nonce
get_nonce_ok(c) ==
    /\ call_pc[c] = "get_nonce"
    /\ call_pc' = [call_pc EXCEPT ![c] = "create_program"]
    /\ UNCHANGED <<chipVars, opVars, net_registered, create_requests, call_tries, call_result>>

get_nonce_failed(c) ==
    /\ call_pc[c] = "get_nonce"
    /\ with_retry_failed(c, "get_nonce")
    /\ UNCHANGED <<chipVars, opVars, net_registered, create_requests>>

\* the CreateProgram request as the network receives it
CreateProgramRequest(c) ==
    [call |-> c, attempt |-> call_tries[c], registered |-> net_registered]

\* lines 167-174 and 115-117: the signed request is sent and the network
\* registers the program; Ok(vk_hash)
create_program_ok(c) ==
    /\ call_pc[c] = "create_program"
    /\ create_requests' = create_requests \cup {CreateProgramRequest(c)}
    /\ net_registered' = TRUE
    /\ Return(c, "ok")
    /\ UNCHANGED <<chipVars, opVars>>

\* the request is sent and the RPC fails, nothing registered by it
create_program_failed(c) ==
    /\ call_pc[c] = "create_program"
    /\ create_requests' = create_requests \cup {CreateProgramRequest(c)}
    /\ with_retry_failed(c, "get_nonce")
    /\ UNCHANGED <<chipVars, opVars, net_registered>>

InitNet ==
    /\ program = [instructions |-> <<>>, fixed_log2_rows |-> None]
    /\ record = DefaultRecord
    /\ pc = "prep_start"
    /\ values = <<>>
    /\ pending = {}
    /\ writes = {}
    /\ prep_trace = None
    /\ main_trace = None
    /\ eval_row = 0
    /\ evald = <<>>
    /\ NetIdle
    /\ OpIdle

NextNet ==
    \E c \in Calls :
        \/ register_program(c)
        \/ get_program_some(c)
        \/ get_program_none(c)
        \/ get_program_failed(c)
        \/ artifact_store_client(c)
        \/ create_artifact(c)
        \/ upload_ok(c)
        \/ upload_failed(c)
        \/ get_nonce_ok(c)
        \/ get_nonce_failed(c)
        \/ create_program_ok(c)
        \/ create_program_failed(c)

SpecNet == InitNet /\ [][NextNet]_vars

-----------------------------------------------------------------------------
(* The pipeline: preprocess the program, run it, generate the main trace,   *)
(* evaluate the rows.                                                       *)

Init ==
    /\ program \in Programs
    /\ record = DefaultRecord
    /\ pc = "prep_start"
    /\ values = <<>>
    /\ pending = {}
    /\ writes = {}
    /\ prep_trace = None
    /\ main_trace = None
    /\ eval_row = 0
    /\ evald = <<>>
    /\ NetIdle
    /\ OpIdle

Next ==
    \/ generate_preprocessed_trace_begin
    \/ generate_preprocessed_trace_for_each
    \/ generate_preprocessed_trace_return
    \/ generate_trace_begin
    \/ generate_trace_for_each
    \/ generate_trace_return
    \/ EvalStep

\* the evaluator alone: one SELECT row of any field values, generated without
\* override from a one-event record, against the preprocessed row of a program
\* with at most one SELECT
InitEval ==
    /\ program \in {[instructions |-> is, fixed_log2_rows |-> None] :
                        is \in SeqsUpTo({InstrA, InstrB}, 1)}
    /\ record \in {[select_events |-> <<SelectIo(b, o1, o2, i1, i2)>>,
                    fixed_log2_rows |-> None] : b \in F, o1 \in F, o2 \in F, i1 \in F, i2 \in F}
    /\ pc = "eval"
    /\ values = <<>>
    /\ pending = {}
    /\ writes = {}
    /\ prep_trace = Some(single_worker_preprocessed_trace(program))
    /\ main_trace = Some(single_worker_trace(record))
    /\ eval_row = 0
    /\ evald = <<>>
    /\ NetIdle
    /\ OpIdle

NextEval == EvalStep

SpecEval == InitEval /\ [][NextEval]_vars

Spec == Init /\ [][Next]_vars

\* one caller of the client operations, on a client just constructed
NextClient ==
    \/ get_proof_request_status
    \/ get_proof_request_status_rpc_ok
    \/ get_proof_request_status_rpc_failed
    \/ download_artifact_ok
    \/ download_artifact_failed
    \/ get_program
    \/ get_program_closure_ok
    \/ get_program_closure_failed
    \/ request_proof
    \/ request_proof_artifact_store_client
    \/ request_proof_create_artifact
    \/ request_proof_upload_ok
    \/ request_proof_upload_failed
    \/ request_proof_prover_network_client
    \/ request_proof_get_nonce_ok
    \/ request_proof_get_nonce_failed
    \/ request_proof_rpc

SpecClient == InitNet /\ [][NextClient]_vars

-----------------------------------------------------------------------------
(* Properties of the SELECT chip *)

\* positions of the SELECT instructions in the program, and the row of each
SelectPositions == {p \in 1 .. Len(program.instructions) :
                        program.instructions[p].kind = "Select"}
RowOfPosition(p) == Cardinality({q \in SelectPositions : q < p})
NumSelects == Cardinality(SelectPositions)
NumEvents == Len(record.select_events)

PrepRowAt(i) == RowToSelectPreprocessedCols(row_slice(unwrap(prep_trace), i))
MainRowAt(i) == RowToSelectCols(row_slice(unwrap(main_trace), i)).vals
PrepHeight == height(unwrap(prep_trace))
MainHeight == height(unwrap(main_trace))

AllZero(row) == \A k \in 1 .. Len(row) : row[k] = 0
AssertsHold(b) == \A k \in 1 .. Len(b.asserts) : b.asserts[k].lhs = b.asserts[k].rhs
Selected(v) == IF v.bit = 1 THEN <<v.in2, v.in1>> ELSE <<v.in1, v.in2>>
Msg(kind, addr, val, mult) == [kind |-> kind, addr |-> addr, val |-> val, mult |-> mult]

\* C1 (selection correctness): on every evaluated row whose bit is 0 or 1 the
\* evaluator asserts exactly the two identities out1 = bit*in2 + (1-bit)*in1 and
\* out2 = bit*in1 + (1-bit)*in2, and both hold if and only if (out1, out2) is
\* (in2, in1) for bit = 1 and (in1, in2) for bit = 0.
C1_SelectionCorrectness ==
    \A i \in 1 .. Len(evald) :
        LET v == record.select_events[i] IN
        (pc = "eval" /\ i <= NumEvents /\ v.bit \in {0, 1}) =>
            /\ Len(evald[i].asserts) = 2
            /\ evald[i].asserts[1].lhs = v.out1
            /\ evald[i].asserts[2].lhs = v.out2
            /\ AssertsHold(evald[i]) <=> (<<v.out1, v.out2>> = Selected(v))

\* a swap row with different inputs was evaluated and accepted
C1_Witness ==
    /\ Len(evald) >= 1
    /\ record.select_events[1].bit = 1
    /\ record.select_events[1].in1 # record.select_events[1].in2
    /\ AssertsHold(evald[1])

\* C2 (padding soundness): in both returned traces every row at or beyond the
\* number of real rows is all zero, and the evaluator on a pair of such rows
\* asserts identities that hold and emits three receives and two sends all of
\* weight 0.
C2_PaddingSoundness ==
    /\ prep_trace # None =>
        \A i \in NumSelects .. (PrepHeight - 1) : AllZero(row_slice(unwrap(prep_trace), i))
    /\ main_trace # None =>
        \A i \in NumEvents .. (MainHeight - 1) : AllZero(row_slice(unwrap(main_trace), i))
    /\ \A i \in 1 .. Len(evald) :
        (i - 1 >= NumSelects /\ i - 1 >= NumEvents) =>
            /\ AssertsHold(evald[i])
            /\ Len(evald[i].msgs) = 5
            /\ \A k \in 1 .. 5 : evald[i].msgs[k].mult = 0
            /\ \A k \in 1 .. 3 : evald[i].msgs[k].kind = "receive"
            /\ \A k \in 4 .. 5 : evald[i].msgs[k].kind = "send"

\* a padding row behind at least one real row was evaluated
C2_Witness ==
    /\ pc = "eval"
    /\ NumSelects >= 1
    /\ NumEvents >= 1
    /\ Len(evald) > NumSelects
    /\ Len(evald) > NumEvents

\* r is the smallest power of two >= n, and at least 1
SmallestPowerOfTwo(r, n) ==
    \E e \in 0 .. (n + 1) : r = 2 ^ e /\ r >= n /\ (e > 0 => 2 ^ (e - 1) < n)
RowCountPolicy(r, n, fixed) ==
    IF fixed # None THEN r = 2 ^ unwrap(fixed) ELSE SmallestPowerOfTwo(r, n)

\* C3 (row-count policy): preprocessed_num_rows and num_rows are 2^k under an
\* override k and otherwise the smallest power of two >= the real-row count,
\* at least 1 (0 -> 1, 2 -> 2, 1025 -> 2048); both follow the same rule, and a
\* generated trace has exactly that height.
C3_RowCountPolicy ==
    /\ RowCountPolicy(preprocessed_num_rows(program, NumSelects), NumSelects,
                      program.fixed_log2_rows)
    /\ RowCountPolicy(num_rows(record), NumEvents, record.fixed_log2_rows)
    /\ preprocessed_num_rows(program, NumSelects)
         = next_power_of_two(NumSelects, program.fixed_log2_rows)
    /\ prep_trace # None => PrepHeight = preprocessed_num_rows(program, NumSelects)
    /\ main_trace # None => MainHeight = num_rows(record)
    /\ next_power_of_two(0, None) = 1
    /\ next_power_of_two(2, None) = 2
    /\ next_power_of_two(1025, None) = 2048
    /\ preprocessed_num_rows([program EXCEPT !.fixed_log2_rows = None], 1025) = 2048

\* both traces were generated, one sized by the count and one by an override
C3_Witness ==
    /\ pc = "eval"
    /\ NumSelects >= 2
    /\ program.fixed_log2_rows = None
    /\ record.fixed_log2_rows # None
    /\ MainHeight # PrepHeight

\* C4 (trace/record alignment): once both traces are generated from a program
\* with SELECT instructions s_0..s_{N-1} and a record with events e_0..e_{N-1},
\* row i of the main trace is e_i and row i of the preprocessed trace is
\* is_real = 1 with the addresses and multiplicities of s_i, for every i < N,
\* whatever the two heights.
C4_TraceRecordAlignment ==
    pc = "eval" =>
        /\ NumEvents = NumSelects
        /\ \A p \in SelectPositions :
            LET i == RowOfPosition(p)
                s == program.instructions[p]
            IN  /\ i < MainHeight
                /\ i < PrepHeight
                /\ MainRowAt(i) = record.select_events[i + 1]
                /\ PrepRowAt(i) = [is_real |-> 1, addrs |-> s.addrs,
                                   mult1 |-> s.mult1, mult2 |-> s.mult2]

\* two different instructions met two different events in traces of different heights
C4_Witness ==
    /\ pc = "eval"
    /\ MainHeight # PrepHeight
    /\ NumSelects >= 2
    /\ record.select_events[1] # record.select_events[2]
    /\ extract_select_instrs(program)[1] # extract_select_instrs(program)[2]

C5_Rows ==
    prep_trace # None =>
        /\ \A p \in SelectPositions :
            LET s == program.instructions[p]
            IN  /\ RowOfPosition(p) < PrepHeight
                /\ PrepRowAt(RowOfPosition(p)) =
                       [is_real |-> 1, addrs |-> s.addrs, mult1 |-> s.mult1, mult2 |-> s.mult2]
        /\ Cardinality({i \in 0 .. (PrepHeight - 1) : PrepRowAt(i).is_real = 1}) = NumSelects

\* C5 (projection of the program): the real rows of the preprocessed trace are
\* the SELECT instructions in program order, instructions of other kinds
\* skipped; the i-th SELECT gives row i = {is_real 1, its addrs, mult1, mult2};
\* as many rows have is_real = 1 as there are SELECT instructions; and no step
\* changes the program.
C5_ProgramProjection == []C5_Rows /\ [][program' = program]_vars

\* a trace was returned for a program with another instruction before two
\* different SELECTs
C5_Witness ==
    /\ prep_trace # None
    /\ program.instructions = <<InstrMem, InstrB, InstrA>>

\* C6 (verbatim copy): row i of the main trace is the five values of
\* select_events[i] unchanged for every i below the event count, whatever the
\* event (bit not boolean, outputs no selection of the inputs), and the trace
\* equals the reference generator's.
C6_VerbatimCopy ==
    main_trace # None =>
        /\ \A i \in 0 .. (NumEvents - 1) :
            /\ i < MainHeight
            /\ MainRowAt(i) = record.select_events[i + 1]
        /\ unwrap(main_trace) = generate_trace_ffi(record)

\* a trace was returned for a record holding an event that is no selection
C6_Witness ==
    /\ main_trace # None
    /\ \E i \in 1 .. NumEvents :
        LET v == record.select_events[i]
        IN  v.bit \notin {0, 1} /\ <<v.out1, v.out2>> # Selected(v)

\* C7 (parallel/sequential equivalence): in the parallel loop no row is written
\* twice (so never by two workers), chunk j is written from input j only, and
\* when the loop has joined the buffer, and then the returned matrix, equals
\* what one worker filling rows 0..N-1 in order produces.
C7_ParallelSequentialEquivalence ==
    /\ \A a \in writes : \A b \in writes : a.chunk = b.chunk => a = b
    /\ \A a \in writes : a.input = a.chunk
    /\ (pc = "prep_fill" /\ pending = {}) =>
        values = single_worker_preprocessed_trace(program).values
    /\ (pc = "main_fill" /\ pending = {}) =>
        values = single_worker_trace(record).values
    /\ prep_trace # None => unwrap(prep_trace) = single_worker_preprocessed_trace(program)
    /\ main_trace # None => unwrap(main_trace) = single_worker_trace(record)

\* a loop over at least two rows has joined after two workers took part, the
\* later row written by the first worker
C7_Witness ==
    /\ pc = "main_fill"
    /\ pending = {}
    /\ \E a \in writes : \E b \in writes :
        a.worker = "w1" /\ b.worker = "w2" /\ a.chunk > b.chunk

\* sum of the weights of message k over the rows evaluated so far
RECURSIVE TotalWeight(_, _)
TotalWeight(k, n) ==
    IF n = 0 THEN 0 ELSE (TotalWeight(k, n - 1) + evald[n].msgs[k].mult) % FieldOrder

\* C8 (bus messages): on every evaluated row the evaluator emits exactly the
\* receives (addrs.bit, bit), (addrs.in1, in1), (addrs.in2, in2) weighted by
\* is_real and the sends (addrs.out1, out1) weighted by mult1, (addrs.out2, out2)
\* weighted by mult2; a real row carries the addresses and multiplicities of
\* its instruction; over the whole trace pair each operand is received with
\* total weight equal to the number of real rows; a real row with mult1 = 0
\* (mult2 = 0) is still received with weight 1 but sends its output with weight 0.
C8_BusMessages ==
    /\ \A i \in 1 .. Len(evald) :
        LET v == MainRowAt(i - 1)
            q == PrepRowAt(i - 1)
        IN  evald[i].msgs = << Msg("receive", q.addrs.bit, v.bit, q.is_real),
                               Msg("receive", q.addrs.in1, v.in1, q.is_real),
                               Msg("receive", q.addrs.in2, v.in2, q.is_real),
                               Msg("send", q.addrs.out1, v.out1, q.mult1),
                               Msg("send", q.addrs.out2, v.out2, q.mult2) >>
    /\ \A p \in SelectPositions :
        LET i == RowOfPosition(p) + 1
            s == program.instructions[p]
        IN  i <= Len(evald) =>
                /\ \A k \in 1 .. 3 : evald[i].msgs[k].mult = 1
                /\ evald[i].msgs[4].addr = s.addrs.out1
                /\ evald[i].msgs[4].mult = s.mult1
                /\ evald[i].msgs[5].addr = s.addrs.out2
                /\ evald[i].msgs[5].mult = s.mult2
    /\ (pc = "eval" /\ eval_row = EvalRows) =>
        \A k \in 1 .. 3 : TotalWeight(k, Len(evald)) = NumSelects % FieldOrder

\* all rows of a pair were evaluated, among them a real row with a dangling
\* out1 and a padding row
C8_Witness ==
    /\ pc = "eval"
    /\ eval_row = EvalRows
    /\ EvalRows > NumSelects
    /\ \E p \in SelectPositions :
        /\ program.instructions[p].mult1 = 0
        /\ evald[RowOfPosition(p) + 1].msgs[4].mult = 0
        /\ evald[RowOfPosition(p) + 1].msgs[1].mult = 1

\* the override of the program / of the record is smaller than the real rows
PrepMisconfigured ==
    /\ program.fixed_log2_rows # None
    /\ 2 ^ unwrap(program.fixed_log2_rows) < NumSelects
MainMisconfigured ==
    /\ record.fixed_log2_rows # None
    /\ 2 ^ unwrap(record.fixed_log2_rows) < NumEvents

\* C9 as stated (misconfigured override): with 2^k smaller than the number of
\* real rows the generators signal no error and return a trace of 2^k rows
\* holding the first 2^k real rows.
C9_SilentTruncation ==
    /\ (PrepMisconfigured /\ pc # "prep_start") =>
        /\ pc # "prep_panic"
        /\ prep_trace # None =>
            /\ PrepHeight = 2 ^ unwrap(program.fixed_log2_rows)
            /\ \A i \in 0 .. (PrepHeight - 1) :
                row_slice(unwrap(prep_trace), i) = PrepClosure(extract_select_instrs(program)[i + 1])
    /\ (MainMisconfigured /\ pc \notin {"prep_start", "prep_fill", "prep_panic", "main_start"}) =>
        /\ pc # "main_panic"
        /\ main_trace # None =>
            /\ MainHeight = 2 ^ unwrap(record.fixed_log2_rows)
            /\ \A i \in 0 .. (MainHeight - 1) : MainRowAt(i) = record.select_events[i + 1]

\* C9 as amended: with 2^k smaller than the number of real rows the generators
\* validate nothing themselves, but slicing the buffer up to the populated
\* length is out of range: the call panics and no trace, truncated or not, is
\* returned.
C9_MisconfiguredOverridePanics ==
    /\ (PrepMisconfigured /\ pc # "prep_start") =>
        /\ pc = "prep_panic"
        /\ prep_trace = None
    /\ (MainMisconfigured /\ pc \notin {"prep_start", "prep_fill", "prep_panic", "main_start"}) =>
        /\ pc = "main_panic"
        /\ main_trace = None
    /\ pc = "prep_panic" => PrepMisconfigured
    /\ pc = "main_panic" => MainMisconfigured

\* generate_trace was called with three events and an override of 2 rows
C9_Witness ==
    /\ pc = "main_panic"
    /\ NumEvents = 3
    /\ record.fixed_log2_rows = Some(1)
    /\ prep_trace # None

-----------------------------------------------------------------------------
(* Properties of register_program *)

\* C10 (register only if not registered): every CreateProgram request reaches
\* the network at a moment when the program is not registered, so at most one
\* request finds the program absent and creates it; a call that found the
\* program or failed to look it up has sent no request.
C10_CreateOnlyIfNotRegistered ==
    \A r \in create_requests : ~r.registered

-----------------------------------------------------------------------------
(* Properties of the single-caller client operations *)

\* the transfers of the log whose kind starts with `prefix`
LogOf(prefix) ==
    {i \in 1 .. Len(op_log) :
        /\ Len(op_log[i].what) >= Len(prefix)
        /\ SubSeq(op_log[i].what, 1, Len(prefix)) = prefix}

StatusHeld == unwrap(op_res).fulfillment_status
Returned == unwrap(op_result)

\* C11 (proof exactly when fulfilled): a download is only ever made for a
\* Fulfilled response, from its proof_uri; a call that returns Ok returns the
\* response held, with Some(proof) exactly when the status is Fulfilled, and
\* then the last transfer is a download of deserializable bytes; with a
\* Fulfilled status a missing proof_uri, a download given up or bytes that do
\* not deserialize give Err; with any other valid status the call returns
\* Ok((response, None)) and has made no download.
C11_ProofIffFulfilled ==
    op = "get_proof_request_status" =>
        /\ \A i \in LogOf("download") :
            /\ op_res # None
            /\ StatusHeld = "Fulfilled"
            /\ Some(op_log[i].arg) = unwrap(op_res).proof_uri
        /\ (op_pc = "done" /\ Returned.kind = "ok") =>
            /\ op_res # None
            /\ Returned.val[1] = unwrap(op_res)
            /\ StatusHeld \in ValidStatuses
            /\ (StatusHeld = "Fulfilled") <=> (Returned.val[2] # None)
            /\ StatusHeld = "Fulfilled" =>
                /\ Returned.val[2] = Some("proof")
                /\ op_log[Len(op_log)] =
                       Transfer("download:proof_bytes", unwrap(unwrap(op_res).proof_uri))
        /\ (op_pc = "done" /\ op_res # None /\ StatusHeld = "Fulfilled") =>
            /\ (unwrap(op_res).proof_uri = None => Returned.kind = "err")
            /\ (LogOf("download:proof_bytes") = {} => Returned.kind = "err")
        /\ (op_res # None /\ StatusHeld \in ValidStatuses \ {"Fulfilled"}) =>
            /\ op_pc = "done"
            /\ Returned = Ok(<<unwrap(op_res), None>>)
            /\ LogOf("download") = {}

\* a Fulfilled request returned its proof after a first download had failed
C11_Witness ==
    /\ op = "get_proof_request_status"
    /\ op_pc = "done"
    /\ Returned.kind = "ok"
    /\ Returned.val[2] = Some("proof")
    /\ LogOf("download:failed") # {}

\* C12 (NotFound is None): in get_program a NotFound status is the last thing
\* the call sees: it ends the retry loop and the call returns Ok(None), never
\* an error; a response likewise ends it with Ok(Some(response)); a failed
\* connection or any other error status counts as a failed attempt of the
\* retry wrapper, which runs the closure again or returns the error.
C12_NotFoundIsNone ==
    op = "get_program" =>
        /\ \A i \in 1 .. Len(op_log) :
            /\ op_log[i] = Transfer("get_program", "NotFound") =>
                (i = Len(op_log) /\ op_pc = "done" /\ Returned = Ok(None))
            /\ op_log[i] = Transfer("get_program", "ok") =>
                (i = Len(op_log) /\ op_pc = "done" /\ Returned = Ok(Some("program")))
            /\ op_log[i].arg \notin {"NotFound", "ok"} =>
                \/ i < Len(op_log)
                \/ op_pc = "get_program_rpc" /\ op_tries = i
                \/ op_pc = "done" /\ Returned = Err(op_log[i].arg)
        /\ (op_pc = "done" /\ Returned.kind = "err") =>
            op_log[Len(op_log)].arg \notin {"NotFound", "ok"}
        /\ Len(op_log) <= MaxAttempts

\* the program was reported absent on the attempt after a failed one
C12_Witness ==
    /\ op = "get_program"
    /\ op_pc = "done"
    /\ Returned = Ok(None)
    /\ Len(op_log) = 2
    /\ op_log[1] = Transfer("get_program", "Unavailable")

-----------------------------------------------------------------------------
(* The trust boundary of the SELECT chip *)

\* the order of the field is a prime
PrimeOrder == \A d \in 2 .. (FieldOrder - 1) : FieldOrder % d # 0

\* the two identities computed over the integers and reduced
Identity1(v) == (v.bit * v.in2 + (FieldOrder + 1 - v.bit) * v.in1) % FieldOrder
Identity2(v) == (v.bit * v.in1 + (FieldOrder + 1 - v.bit) * v.in2) % FieldOrder

\* C13 (booleanness of bit is not enforced): the evaluator asserts the two
\* identities and nothing else, so every row whose bit is neither 0 nor 1 and
\* whose outputs are bit*in2 + (1-bit)*in1 and bit*in1 + (1-bit)*in2 satisfies
\* all its assertions; in a prime field, with in1 # in2, the outputs of such a
\* row are neither (in1, in2) nor (in2, in1).
C13_BitNotConstrained ==
    \A i \in 1 .. Len(evald) :
        LET v == record.select_events[i] IN
        (/\ pc = "eval"
         /\ i <= NumEvents
         /\ v.bit \notin {0, 1}
         /\ v.out1 = Identity1(v)
         /\ v.out2 = Identity2(v)) =>
            /\ Len(evald[i].asserts) = 2
            /\ AssertsHold(evald[i])
            /\ (PrimeOrder /\ v.in1 # v.in2) =>
                (<<v.out1, v.out2>> \notin {<<v.in1, v.in2>>, <<v.in2, v.in1>>})

\* a row with bit = 2 whose outputs are no selection of its inputs was
\* evaluated and accepted
C13_Witness ==
    /\ Len(evald) >= 1
    /\ record.select_events[1].bit = 2
    /\ record.select_events[1].in1 # record.select_events[1].in2
    /\ AssertsHold(evald[1])
    /\ <<record.select_events[1].out1, record.select_events[1].out2>>
         # Selected(record.select_events[1])
    /\ <<record.select_events[1].out1, record.select_events[1].out2>>
         # <<record.select_events[1].in1, record.select_events[1].in2>>

-----------------------------------------------------------------------------
(* Ordering inside request_proof *)

\* the transfers of exactly this kind
Sent(what) == {i \in 1 .. Len(op_log) : op_log[i].what = what}

\* C14 (ordering inside request_proof): every nonce fetch comes after the
\* successful upload, which comes after the successful creation of the stdin
\* artifact; the RequestProof RPC comes right after a successful nonce fetch,
\* carries the URI created and the nonce fetched, and is the last transfer of
\* the call; at most one RequestProof RPC is sent; a call that returned
\* without sending it returned an error after a failed step, and only a call
\* that sent it returns Ok.
C14_RequestProofOrdering ==
    op = "request_proof" =>
        /\ \A i \in Sent("get_nonce") :
            \E k \in 1 .. (i - 1) :
                /\ op_log[k] = Transfer("upload", "ok")
                /\ \E l \in 1 .. (k - 1) : op_log[l] = Transfer("create_artifact", "ok")
        /\ \A i \in Sent("upload") :
            \E l \in 1 .. (i - 1) : op_log[l] = Transfer("create_artifact", "ok")
        /\ \A i \in Sent("request_proof") :
            /\ i = Len(op_log)
            /\ op_pc = "done"
            /\ i > 1
            /\ op_log[i - 1] = Transfer("get_nonce", "ok")
            /\ op_log[i].arg.stdin_uri \in StdinUris
            /\ op_log[i].arg.nonce \in {Some(n) : n \in Nonces}
            /\ op_log[i].arg = RequestProofRequestBody
        /\ Cardinality(Sent("request_proof")) <= 1
        /\ (op_pc = "done" /\ Sent("request_proof") = {}) =>
            /\ Returned.kind = "err"
            /\ op_log # <<>>
            /\ op_log[Len(op_log)].arg = "failed"
        /\ (op_pc = "done" /\ Returned.kind = "ok") =>
            Sent("request_proof") = {Len(op_log)}

\* a proof was requested after an upload and a nonce fetch had each failed once
C14_Witness ==
    /\ op = "request_proof"
    /\ op_pc = "done"
    /\ Returned.kind = "ok"
    /\ Len(op_log) = 6
    /\ SubSeq(op_log, 1, 5) =
           << Transfer("create_artifact", "ok"),
              Transfer("upload", "failed"), Transfer("upload", "ok"),
              Transfer("get_nonce", "failed"), Transfer("get_nonce", "ok") >>
    /\ op_log[6].what = "request_proof"

====
